---------------------------- MODULE Spec2Model ----------------------------
(***************************************************************************)
(* Resume text-to-structure extraction engine.                             *)
(*                                                                         *)
(* Three pipelines live in the repository:                                 *)
(*   strict    - src/unnamed/part_000 lines 1-441   (parseResume)          *)
(*   legacy    - src/unnamed/part_000 lines 442-611 (parseResume)          *)
(*   primary / secondary - src/resumeParser2.js (parseResume and           *)
(*               parseResumeSecondaryApproach)                             *)
(*                                                                         *)
(* JavaScript strings are TLA+ strings handled character by character      *)
(* (Len, SubSeq, \o).  Two characters of the source have no ASCII form     *)
(* and are written with a stand-in: the bullet U+2022 is "*", and the      *)
(* dashes U+2013 / U+2014 of the date patterns are "~" (the ASCII hyphen   *)
(* "-" of the same character class is itself).  Indices kept in records    *)
(* (startIndex, endIndex, index) are the 0-based indices of the source.    *)
(***************************************************************************)
EXTENDS Integers, Sequences, FiniteSets, TLC

VARIABLES
    entry,      \* the entry point that was invoked
    text,       \* its argument
    pc,         \* position inside the entry point
    lines,      \* const lines = text.split(...).map(trim).filter(Boolean)
    sections,   \* detected spans / boundaries
    content,    \* per section type: the content slice handed to the parsers
    result,     \* the returned value
    scan        \* parseRawExperience: the scan pointer i of its while loop, and the
                \* line indices each pushed entry was built from

vars == <<entry, text, pc, lines, sections, content, result, scan>>

-----------------------------------------------------------------------------
(* Characters and strings *)

Ch(s, i) == SubSeq(s, i, i)

LowerAlpha == "abcdefghijklmnopqrstuvwxyz"
UpperAlpha == "ABCDEFGHIJKLMNOPQRSTUVWXYZ"
DigitChars == "0123456789"

CharsOf(s) == { Ch(s, i) : i \in 1..Len(s) }

LowerSet == CharsOf(LowerAlpha)
UpperSet == CharsOf(UpperAlpha)
DigitSet == CharsOf(DigitChars)
LetterSet == LowerSet \cup UpperSet
WordSet == LetterSet \cup DigitSet \cup {"_"}
SpaceSet == {" ", "\t", "\n", "\r"}

BULLET == "*"
DashSet == {"~", "-"}

LowerOf == [c \in UpperSet |-> Ch(LowerAlpha, CHOOSE i \in 1..26 : Ch(UpperAlpha, i) = c)]
UpperOf == [c \in LowerSet |-> Ch(UpperAlpha, CHOOSE i \in 1..26 : Ch(LowerAlpha, i) = c)]

ToLowerCh(c) == IF c \in UpperSet THEN LowerOf[c] ELSE c
ToUpperCh(c) == IF c \in LowerSet THEN UpperOf[c] ELSE c

RECURSIVE MapChars(_, _, _)
MapChars(s, i, up) ==
    IF i > Len(s) THEN ""
    ELSE (IF up THEN ToUpperCh(Ch(s, i)) ELSE ToLowerCh(Ch(s, i))) \o MapChars(s, i + 1, up)

toLowerCase(s) == MapChars(s, 1, FALSE)
toUpperCase(s) == MapChars(s, 1, TRUE)

Min(a, b) == IF a < b THEN a ELSE b
Max(a, b) == IF a > b THEN a ELSE b

\* const x = v; followed by the statements In that use x.
Bind(v, In(_)) == In(v)

\* The first element of a set of positions, 0 for the empty set.
FirstOf(S) == IF S = {} THEN 0 ELSE CHOOSE i \in S : \A j \in S : i <= j

\* Index of the first character at or after i that is not in Class (Len(s)+1 if none).
RECURSIVE RunEnd(_, _, _)
RunEnd(s, i, Class) ==
    IF i > Len(s) \/ Ch(s, i) \notin Class THEN i ELSE RunEnd(s, i + 1, Class)

\* Index of the last character at or before i that is not in Class (0 if none).
RECURSIVE RunStart(_, _, _)
RunStart(s, i, Class) ==
    IF i < 1 \/ Ch(s, i) \notin Class THEN i ELSE RunStart(s, i - 1, Class)

trim(s) ==
    LET a == RunEnd(s, 1, SpaceSet)
        b == RunStart(s, Len(s), SpaceSet)
    IN  IF a > b THEN "" ELSE SubSeq(s, a, b)

startsWith(s, p) == Len(s) >= Len(p) /\ SubSeq(s, 1, Len(p)) = p

MatchAt(s, i, p) == i + Len(p) - 1 <= Len(s) /\ SubSeq(s, i, i + Len(p) - 1) = p

includes(s, p) == \E i \in 1..(Len(s) - Len(p) + 1) : MatchAt(s, i, p)

\* String.prototype.indexOf, 0-based, -1 when absent.
indexOf(s, p) ==
    IF includes(s, p)
    THEN (CHOOSE i \in 1..(Len(s) - Len(p) + 1) :
             MatchAt(s, i, p) /\ \A j \in 1..(i - 1) : ~MatchAt(s, j, p)) - 1
    ELSE -1

\* s.split(sep) for a one-character separator class, one piece per separator.
RECURSIVE SplitFrom(_, _, _, _)
SplitFrom(s, i, start, Seps) ==
    IF i > Len(s) THEN << SubSeq(s, start, Len(s)) >>
    ELSE IF Ch(s, i) \in Seps
         THEN << SubSeq(s, start, i - 1) >> \o SplitFrom(s, i + 1, i + 1, Seps)
         ELSE SplitFrom(s, i + 1, start, Seps)

\* s.split(/[...]+/): a run of separators is one delimiter.
RECURSIVE SplitRunsFrom(_, _, _, _)
SplitRunsFrom(s, i, start, Seps) ==
    IF i > Len(s) THEN << SubSeq(s, start, Len(s)) >>
    ELSE IF Ch(s, i) \in Seps
         THEN LET e == RunEnd(s, i, Seps)
              IN  << SubSeq(s, start, i - 1) >> \o SplitRunsFrom(s, e, e, Seps)
         ELSE SplitRunsFrom(s, i + 1, start, Seps)

split(s, Seps) == SplitFrom(s, 1, 1, Seps)
splitRuns(s, Seps) == SplitRunsFrom(s, 1, 1, Seps)

\* line.split(/\s+/)
splitWhitespace(s) == splitRuns(s, SpaceSet)

RECURSIVE join(_, _)
join(seq, sep) ==
    IF Len(seq) = 0 THEN ""
    ELSE IF Len(seq) = 1 THEN seq[1]
    ELSE seq[1] \o sep \o join(Tail(seq), sep)

MapSeq(seq, F(_)) == [i \in 1..Len(seq) |-> F(seq[i])]

\* Array.prototype.slice(a, b) with 0-based bounds.
slice(seq, a, b) == SubSeq(seq, a + 1, Min(b, Len(seq)))

\* [...new Set(list)]: first occurrences, in order.
RECURSIVE Dedup(_)
Dedup(seq) ==
    IF Len(seq) = 0 THEN << >>
    ELSE LET front == Dedup(SubSeq(seq, 1, Len(seq) - 1))
             last == seq[Len(seq)]
         IN  IF \E i \in 1..Len(front) : front[i] = last THEN front ELSE Append(front, last)

NonEmpty(s) == s # ""

\* text.split(/\r?\n/).map(l => l.trim()).filter(Boolean)
NormalizeLines(t) == SelectSeq(MapSeq(split(t, {"\n"}), trim), NonEmpty)

-----------------------------------------------------------------------------
(* Inputs.  A document is a sequence of raw lines joined by "\n"; the raw    *)
(* lines are drawn from the corpus of the specification that is run.         *)

MaxLines == 3
MaxNameLines == 6
MaxSkillLines == 2

SectionCorpus ==
    { "Education", "Skills", "Python, Go", "Project Experience", "* Key Skills",
      " B.Tech CS 2019 - 2023 " }

NameCorpus == { "John Doe", "john@example.com", "JOHN DOE" }

SkillCorpus ==
    { "Languages: C++, Python, Go", "Go, Rust | Go", "Tools:", "* Docker, Go",
      "Python , Python" }

SeqsUpTo(S, n) == UNION { [1..k -> S] : k \in 0..n }

\* Every line the normalizer can hand on.
LineUniverse == { trim(l) : l \in SectionCorpus \cup NameCorpus \cup SkillCorpus } \ {""}

-----------------------------------------------------------------------------
(* fuzzball: fuzz.ratio and fuzz.token_set_ratio, as the library computes    *)
(* them with its default options (full_process on both arguments, then the   *)
(* Levenshtein ratio with substitution cost 2, i.e. 2*LCS / (len1 + len2)).  *)

\* full_process: every non-alphanumeric character becomes a space, lower case, trim.
RECURSIVE FullProcessFrom(_, _)
FullProcessFrom(s, i) ==
    IF i > Len(s) THEN ""
    ELSE (IF Ch(s, i) \in LetterSet \cup DigitSet THEN ToLowerCh(Ch(s, i)) ELSE " ")
         \o FullProcessFrom(s, i + 1)

FullProcess(s) == trim(FullProcessFrom(s, 1))

\* One row of the longest-common-subsequence table: prev is the row above,
\* acc the row being built (both hold column 0 at index 1, so Len(acc) = j).
RECURSIVE LcsRow(_, _, _, _, _)
LcsRow(prev, c, b, j, acc) ==
    IF j > Len(b) \/ Len(acc) # j THEN acc
    ELSE LcsRow(prev, c, b, j + 1,
                Append(acc, IF Ch(b, j) = c THEN prev[j] + 1
                            ELSE Max(prev[j + 1], acc[j])))

RECURSIVE LcsRows(_, _, _, _)
LcsRows(a, b, i, prev) ==
    IF i > Len(a) \/ Len(prev) # Len(b) + 1 THEN prev[Len(b) + 1]
    ELSE LcsRows(a, b, i + 1, LcsRow(prev, Ch(a, i), b, 1, <<0>>))

LcsLen(a, b) == LcsRows(a, b, 1, [j \in 1..(Len(b) + 1) |-> 0])

\* Math.round(100 * (lensum - distance) / lensum) on processed strings.
RawRatio(a, b) ==
    IF a = "" \/ b = "" THEN 0
    ELSE IF a = b THEN 100
    ELSE LET lensum == Len(a) + Len(b)
         IN  (400 * LcsLen(a, b) + lensum) \div (2 * lensum)

FuzzRatio(s1, s2) == RawRatio(FullProcess(s1), FullProcess(s2))

\* Code-unit order of the characters that survive full_process.
CharOrder == " 0123456789abcdefghijklmnopqrstuvwxyz"
CharRank == [c \in CharsOf(CharOrder) |-> CHOOSE i \in 1..Len(CharOrder) : Ch(CharOrder, i) = c]

RECURSIVE StrLess(_, _)
StrLess(a, b) ==
    IF b = "" THEN FALSE
    ELSE IF a = "" THEN TRUE
    ELSE IF Head(a) = Head(b) THEN StrLess(Tail(a), Tail(b))
    ELSE CharRank[Head(a)] < CharRank[Head(b)]

RECURSIVE SortedTokens(_)
SortedTokens(S) ==
    IF S = {} THEN << >>
    ELSE LET m == CHOOSE x \in S : \A y \in S \ {x} : StrLess(x, y)
         IN  <<m>> \o SortedTokens(S \ {m})

\* The set of the tokens of a processed string.
TokenSet(s) == Bind(splitWhitespace(FullProcess(s)), LAMBDA w : { w[i] : i \in 1..Len(w) } \ {""})

\* token_set_ratio on the two token sets: the best of the three pairwise ratios of
\* the sorted intersection and the two sorted intersection-plus-remainder strings.
TokenSetRatio(t1, t2) ==
    Bind(join(SortedTokens(t1 \cap t2), " "), LAMBDA sect :
    Bind(trim(sect \o " " \o join(SortedTokens(t1 \ t2), " ")), LAMBDA c12 :
    Bind(trim(sect \o " " \o join(SortedTokens(t2 \ t1), " ")), LAMBDA c21 :
        Max(RawRatio(sect, c12), Max(RawRatio(sect, c21), RawRatio(c12, c21))))))

FuzzTokenSetRatio(s1, s2) == TokenSetRatio(TokenSet(s1), TokenSet(s2))

-----------------------------------------------------------------------------
(* Section boundary detection *)

\* part_000: const sectionKeywords, in Object.entries order.
sectionKeywordsStrict == <<
    [type |-> "summary", keywords |-> <<"summary", "profile", "about", "objective",
        "career objective", "job objective", "profile summary", "professional summary">>],
    [type |-> "education", keywords |-> <<"education", "academic", "qualification",
        "educational background", "academic background">>],
    [type |-> "experience", keywords |-> <<"experience", "work experience", "employment",
        "professional experience", "career history", "work history">>],
    [type |-> "articleship", keywords |-> <<"articleship", "article assistant", "training",
        "internship">>],
    [type |-> "skills", keywords |-> <<"skills", "technical skills", "core competencies",
        "competencies", "technologies", "expertise">>],
    [type |-> "projects", keywords |-> <<"projects", "key projects", "notable projects",
        "project experience">>],
    [type |-> "certifications", keywords |-> <<"certifications", "certificates", "awards",
        "accolades", "achievements", "honors", "achievement",
        "position of responsibility">>],
    [type |-> "languages", keywords |-> <<"languages", "language", "spoken languages",
        "language known">>],
    [type |-> "hobbies", keywords |-> <<"hobbies", "interests", "personal interests",
        "activities">>] >>

\* resumeParser2.js: the same table with one more certifications keyword.
sectionKeywordsPrimary ==
    [sectionKeywordsStrict EXCEPT ![7].keywords =
        Append(@, "achievements & position of responsibilities")]

SectionTypes == { sectionKeywordsStrict[k].type : k \in 1..Len(sectionKeywordsStrict) }

\* part_000 lines 31-33: the three acceptance rules of detectSectionBoundaries.
StrictKeywordMatch(line, keyword) ==
    \/ line = keyword
    \/ (includes(line, keyword) /\ Len(line) <= Len(keyword) + 10)
    \/ FuzzRatio(line, keyword) > 85

\* resumeParser2.js lines 35-39: isExactMatch || isCloseMatch || isFuzzyMatch.
PrimaryKeywordMatch(line, keyword) ==
    \/ line = keyword
    \/ (includes(line, keyword) /\ Len(line) <= Len(keyword) + 15)
    \/ FuzzRatio(line, keyword) > 90

\* resumeParser2.js line 30: lines that are never header candidates.
PrimarySkipsLine(line) ==
    Len(line) < 3 \/ startsWith(line, BULLET) \/ (Len(line) > 0 /\ Ch(line, 1) \in DigitSet)

AnyKeyword(keywords, Match(_)) == \E k \in 1..Len(keywords) : Match(keywords[k])

Indices(seq) == [k \in 1..Len(seq) |-> k]

RECURSIVE Flatten(_)
Flatten(seqs) == IF Len(seqs) = 0 THEN << >> ELSE Head(seqs) \o Flatten(Tail(seqs))

\* The section types, in table order, one of whose keywords accepts the line
\* (the inner loop breaks at the first keyword, the loop over types goes on).
StrictTypesMatching(line) ==
    LET hit == SelectSeq(Indices(sectionKeywordsStrict),
                   LAMBDA k : AnyKeyword(sectionKeywordsStrict[k].keywords,
                                         LAMBDA kw : StrictKeywordMatch(line, kw)))
    IN  [n \in 1..Len(hit) |-> sectionKeywordsStrict[hit[n]].type]

PrimaryTypesMatching(line) ==
    IF PrimarySkipsLine(line) THEN << >>
    ELSE LET hit == SelectSeq(Indices(sectionKeywordsPrimary),
                        LAMBDA k : AnyKeyword(sectionKeywordsPrimary[k].keywords,
                                              LAMBDA kw : PrimaryKeywordMatch(line, kw)))
         IN  [n \in 1..Len(hit) |-> sectionKeywordsPrimary[hit[n]].type]

\* Every span closed at the end of the document instead of at the next header.
EndIndicesAtDocumentEnd(secs, n) ==
    [k \in 1..Len(secs) |-> [endIndex |-> n] @@ secs[k]]

\* part_000 lines 46-49 / resumeParser2.js lines 54-56.
AddEndIndices(secs, n) ==
    [k \in 1..Len(secs) |->
        [endIndex |-> IF k < Len(secs) THEN secs[k + 1].startIndex ELSE n] @@ secs[k]]

\* sections.sort((a, b) => a.startIndex - b.startIndex): stable insertion.
RECURSIVE SortByStartIndex(_)
SortByStartIndex(secs) ==
    IF Len(secs) <= 1 THEN secs
    ELSE LET front == SortByStartIndex(SubSeq(secs, 1, Len(secs) - 1))
             x == secs[Len(secs)]
             keep == SelectSeq(front, LAMBDA y : y.startIndex <= x.startIndex)
             rest == SelectSeq(front, LAMBDA y : y.startIndex > x.startIndex)
         IN  keep \o <<x>> \o rest

\* Header detection of a line depends on the line alone: one table per detector,
\* computed once over the lines that can occur.
StrictHeaderTypes ==
    [l \in LineUniverse |-> StrictTypesMatching(toLowerCase(trim(l)))] @@ << >>
PrimaryHeaderTypes ==
    [l \in LineUniverse |-> PrimaryTypesMatching(toLowerCase(trim(l)))] @@ << >>

\* part_000 lines 21-52.
detectSectionBoundaries(ls) ==
    AddEndIndices(
        Flatten([i \in 1..Len(ls) |->
            [n \in 1..Len(StrictHeaderTypes[ls[i]]) |->
                [type |-> StrictHeaderTypes[ls[i]][n], startIndex |-> i - 1,
                 header |-> trim(ls[i])]]]),
        Len(ls))

\* resumeParser2.js lines 23-59.
detectSections(ls) ==
    AddEndIndices(
        SortByStartIndex(Flatten([i \in 1..Len(ls) |->
            [n \in 1..Len(PrimaryHeaderTypes[ls[i]]) |->
                [type |-> PrimaryHeaderTypes[ls[i]][n], startIndex |-> i - 1,
                 header |-> trim(ls[i]), originalLine |-> toLowerCase(trim(ls[i]))]]])),
        Len(ls))

\* sections.find(s => s.type === sectionType): index of the first span of the type, 0 if none.
FindSection(secs, sectionType) ==
    IF \E k \in 1..Len(secs) : secs[k].type = sectionType
    THEN CHOOSE k \in 1..Len(secs) :
            secs[k].type = sectionType /\ \A j \in 1..(k - 1) : secs[j].type # sectionType
    ELSE 0

\* part_000 lines 55-68.
getSectionContent(secs, ls, sectionType) ==
    LET k == FindSection(secs, sectionType)
    IN  IF k = 0 THEN << >>
        ELSE SelectSeq(MapSeq(slice(ls, secs[k].startIndex + 1, secs[k].endIndex), trim),
                       NonEmpty)

\* resumeParser2.js lines 388-393.
getSectionLines(secs, ls, sectionType) ==
    LET k == FindSection(secs, sectionType)
    IN  IF k = 0 THEN << >>
        ELSE SelectSeq(slice(ls, secs[k].startIndex + 1, secs[k].endIndex),
                       LAMBDA l : trim(l) # "")

\* resumeParser2.js line 122.
commonSections == <<"experience", "education", "skills", "projects", "achievements",
                    "certifications">>

\* resumeParser2.js lines 126-135: the first common section the line names, "" if none.
RawSectionOf(line) ==
    LET low == toLowerCase(line)
        hit == SelectSeq(commonSections,
                   LAMBDA sec : includes(low, sec) /\ Len(low) < Len(sec) + 20)
    IN  IF Len(hit) = 0 THEN "" ELSE hit[1]

RawSectionNames == [l \in LineUniverse |-> RawSectionOf(l)] @@ << >>

\* resumeParser2.js lines 121-136: const sectionBoundaries.
sectionBoundaries(ls) ==
    LET at == SelectSeq(Indices(ls), LAMBDA i : RawSectionNames[ls[i]] # "")
    IN  [n \in 1..Len(at) |->
            [name |-> RawSectionNames[ls[at[n]]], index |-> at[n] - 1,
             originalName |-> ls[at[n]]]]

\* resumeParser2.js lines 139-148: one object per boundary, assigned in order to
\* rawSections[section.name].
RawSectionAt(bounds, idx, ls) ==
    LET startIdx == bounds[idx].index + 1
        endIdx == IF idx < Len(bounds) THEN bounds[idx + 1].index ELSE Len(ls)
    IN  [header |-> bounds[idx].originalName,
         content |-> slice(ls, startIdx, endIdx),
         rawText |-> join(slice(ls, startIdx, endIdx), "\n")]

\* The boundary whose object rawSections[name] holds after the forEach: each
\* assignment replaces the one before it.
RawSectionIndex(bounds, name) ==
    CHOOSE idx \in 1..Len(bounds) :
        bounds[idx].name = name /\ \A j \in (idx + 1)..Len(bounds) : bounds[j].name # name

\* resumeParser2.js lines 116-151.
extractRawSections(ls) ==
    LET bounds == sectionBoundaries(ls)
    IN  [name \in { bounds[idx].name : idx \in 1..Len(bounds) } |->
            RawSectionAt(bounds, RawSectionIndex(bounds, name), ls)]

\* part_000 lines 449-450.
sectionMatch(line, section) ==
    FuzzTokenSetRatio(toLowerCase(line), toLowerCase(section)) > 80

\* part_000 lines 505-591: the keyword list of each field of the legacy record.
LegacyKeywords ==
    [summary |-> <<"summary", "profile", "about">>,
     education |-> <<"education", "academics">>,
     workExperience |-> <<"experience", "work", "employment">>,
     skills |-> <<"skills", "technologies">>,
     projects |-> <<"projects", "personal projects">>,
     certifications |-> <<"certifications", "courses", "licenses">>,
     languages |-> <<"languages", "spoken languages">>,
     hobbies |-> <<"hobbies", "interests">>]

LegacyFields == DOMAIN LegacyKeywords

LegacyLineMatches ==
    [l \in LineUniverse |->
        { f \in LegacyFields : AnyKeyword(LegacyKeywords[f], LAMBDA kw : sectionMatch(l, kw)) }]
    @@ << >>

\* part_000 lines 452-472, for the keyword list of field f.
RECURSIVE ExtractSectionFrom(_, _, _, _)
ExtractSectionFrom(ls, f, i, found) ==
    IF i > Len(ls) THEN << >>
    ELSE IF ~found THEN ExtractSectionFrom(ls, f, i + 1, f \in LegacyLineMatches[ls[i]])
    ELSE IF f \in LegacyLineMatches[ls[i]] \/ Len(ls[i]) = 0 THEN << >>
    ELSE <<ls[i]>> \o ExtractSectionFrom(ls, f, i + 1, TRUE)

extractSection(ls, f) == ExtractSectionFrom(ls, f, 1, FALSE)

\* part_000 lines 457-463: the line at which extractSection sets found (0-based), -1 if none.
LegacyHeaderIndex(ls, f) == FirstOf({ i \in 1..Len(ls) : f \in LegacyLineMatches[ls[i]] }) - 1

-----------------------------------------------------------------------------
(* Date ranges *)

\* No Date: what chrono.parseDate returns when it recognises nothing.
NULL == "null"

MonthNames == <<"january", "february", "march", "april", "may", "june", "july", "august",
                "september", "october", "november", "december">>

TwoDigits == <<"01", "02", "03", "04", "05", "06", "07", "08", "09", "10", "11", "12">>

\* The month a word names (full name, three-letter form, or "sept"), 0 if none.
MonthNumber(word) ==
    Bind(toLowerCase(word), LAMBDA w :
        FirstOf({ m \in 1..12 : w = MonthNames[m] \/ w = SubSeq(MonthNames[m], 1, 3)
                                  \/ (m = 9 /\ w = "sept") }))

\* chrono.parseDate(s) followed by .toISOString().split('T')[0], for the strings the
\* date patterns capture.  "Month YYYY" resolves to the first day of that month.
\* Anything else is taken as unrecognised: what chrono makes of a bare year or of
\* a relative word depends on its version and on the clock.
chronoParseDate(s) ==
    Bind(RunEnd(s, 1, LetterSet), LAMBDA e :
    Bind(RunEnd(s, e, SpaceSet), LAMBDA d :
    Bind(MonthNumber(SubSeq(s, 1, e - 1)), LAMBDA m :
        IF m # 0 /\ d > e /\ d + 3 = Len(s) /\ \A k \in d..Len(s) : Ch(s, k) \in DigitSet
        THEN SubSeq(s, d, Len(s)) \o "-" \o TwoDigits[m] \o "-01"
        ELSE NULL)))

\* /[A-Za-z]{3,9}\s+\d{4}/ matched at position i: the index after the match, 0 if none.
MonthYearAt(s, i) ==
    Bind(RunEnd(s, i, LetterSet), LAMBDA e :
    Bind(RunEnd(s, e, SpaceSet), LAMBDA d :
        IF e - i >= 3 /\ e - i <= 9 /\ d > e /\ d + 3 <= Len(s)
              /\ \A k \in d..(d + 3) : Ch(s, k) \in DigitSet
        THEN d + 4 ELSE 0))

\* /\d{4}/ matched at position i.
YearAt(s, i) ==
    IF i + 3 <= Len(s) /\ \A k \in i..(i + 3) : Ch(s, k) \in DigitSet THEN i + 4 ELSE 0

\* One of the words, in any letter case, at position i: the index after it, 0 if none.
WordAt(s, i, words) ==
    Bind(SelectSeq(words, LAMBDA w : MatchAt(toLowerCase(s), i, w)), LAMBDA hit :
        IF Len(hit) = 0 THEN 0 ELSE i + Len(hit[1]))

\* (END) matched at position q: month-year (when monthEnd), else a year (when
\* yearEnd), else one of the words, tried in that order.
RangeEndAt(s, q, monthEnd, yearEnd, words) ==
    Bind(IF monthEnd THEN MonthYearAt(s, q) ELSE 0, LAMBDA e :
        IF e # 0 THEN e ELSE IF yearEnd THEN YearAt(s, q) ELSE WordAt(s, q, words))

\* /(START)\s*[dash]\s*(END)/ matched at position i, START being a year (when
\* yearStart) or a month-year.  The two captured groups, or << >>.
RangeAt(s, i, yearStart, monthEnd, yearEnd, words) ==
    Bind(IF yearStart THEN YearAt(s, i) ELSE MonthYearAt(s, i), LAMBDA e1 :
    Bind(RunEnd(s, e1, SpaceSet), LAMBDA p :
    Bind(RunEnd(s, p + 1, SpaceSet), LAMBDA q :
    Bind(RangeEndAt(s, q, monthEnd, yearEnd, words), LAMBDA e2 :
        IF e1 # 0 /\ p <= Len(s) /\ Ch(s, p) \in DashSet /\ e2 # 0
        THEN << SubSeq(s, i, e1 - 1), SubSeq(s, q, e2 - 1) >>
        ELSE << >>))))

\* text.match(pattern): the groups of the leftmost match, << >> when there is none.
RangeMatch(s, yearStart, monthEnd, yearEnd, words) ==
    Bind(FirstOf({ i \in 1..Len(s) :
                     RangeAt(s, i, yearStart, monthEnd, yearEnd, words) # << >> }), LAMBDA at :
        IF at = 0 THEN << >> ELSE RangeAt(s, at, yearStart, monthEnd, yearEnd, words))

IsoOrEmpty(d) == IF d = NULL THEN "" ELSE d

HasSentinel(s, words) ==
    Bind(toLowerCase(s), LAMBDA low : \E k \in 1..Len(words) : includes(low, words[k]))

\* resumeParser2.js lines 79-88: the four patterns, in order.
DateRangePatterns(s) ==
    << RangeMatch(s, FALSE, FALSE, FALSE, <<"present", "current", "ongoing">>),
       RangeMatch(s, FALSE, TRUE, FALSE, << >>),
       RangeMatch(s, TRUE, FALSE, TRUE, << >>),
       RangeMatch(s, FALSE, TRUE, FALSE, << >>) >>

\* resumeParser2.js lines 90-108: the object returned for the first pattern that matched.
DateRangeOf(match) ==
    [startDate |-> IsoOrEmpty(chronoParseDate(match[1])),
     endDate |-> IF match[2] # "" /\ HasSentinel(match[2], <<"present", "current", "ongoing">>)
                 THEN "Present"
                 ELSE IsoOrEmpty(chronoParseDate(match[2]))]

\* resumeParser2.js lines 77-112.
extractDateRange(s) ==
    Bind(SelectSeq(DateRangePatterns(s), LAMBDA m : m # << >>), LAMBDA hits :
        IF Len(hits) = 0 THEN [startDate |-> "", endDate |-> ""] ELSE DateRangeOf(hits[1]))

\* /([A-Za-z]{3,9}\s+\d{4})/i: the leftmost month-year, "" if none.
SingleDateMatch(s) ==
    Bind(FirstOf({ i \in 1..Len(s) : MonthYearAt(s, i) # 0 }), LAMBDA at :
        IF at = 0 THEN "" ELSE SubSeq(s, at, MonthYearAt(s, at) - 1))

\* part_000 lines 120-130: the object returned when the range pattern matched.
DatesOfRange(rangeMatch) ==
    [startDate |-> IsoOrEmpty(chronoParseDate(rangeMatch[1])),
     endDate |-> IF HasSentinel(rangeMatch[2], <<"present", "current">>)
                 THEN "Present"
                 ELSE IsoOrEmpty(chronoParseDate(rangeMatch[2]))]

\* part_000 lines 114-142.
extractDatesFromText(s) ==
    Bind(RangeMatch(s, FALSE, TRUE, FALSE, <<"present", "current">>), LAMBDA rangeMatch :
    Bind(SingleDateMatch(s), LAMBDA singleMatch :
        IF rangeMatch # << >> THEN DatesOfRange(rangeMatch)
        ELSE IF singleMatch # ""
        THEN [startDate |-> IsoOrEmpty(chronoParseDate(singleMatch)), endDate |-> ""]
        ELSE [startDate |-> "", endDate |-> ""]))

-----------------------------------------------------------------------------
(* Contact information: part_000 lines 71-83, resumeParser2.js lines 62-74 *)

EmailLocalSet == LetterSet \cup DigitSet \cup {".", "_", "%", "+", "-"}
EmailDomainSet == LetterSet \cup DigitSet \cup {".", "-"}

\* /[a-zA-Z0-9._%+-]+@[a-zA-Z0-9.-]+\.[a-zA-Z]{2,}/ with its "@" at position a:
\* the matched text, "" if none.
EmailAround(t, a) ==
    LET first == RunStart(t, a - 1, EmailLocalSet) + 1
        stop == RunEnd(t, a + 1, EmailDomainSet)
        dots == { d \in (a + 2)..(stop - 1) :
                    Ch(t, d) = "." /\ RunEnd(t, d + 1, LetterSet) - (d + 1) >= 2 }
    IN  IF Ch(t, a) = "@" /\ first < a /\ dots # {}
        THEN SubSeq(t, first, RunEnd(t, (CHOOSE d \in dots : \A x \in dots : x <= d) + 1,
                                     LetterSet) - 1)
        ELSE ""

\* text.match(emailRegex)?.[0] || ""
MatchEmail(t) ==
    Bind(FirstOf({ a \in 1..Len(t) : Ch(t, a) = "@" /\ EmailAround(t, a) # "" }), LAMBDA at :
        IF at = 0 THEN "" ELSE EmailAround(t, at))

\* \d{lo,hi} matched greedily at position i: the index after it, 0 if fewer than lo digits.
DigitsAt(t, i, lo, hi) ==
    LET n == Min(RunEnd(t, i, DigitSet) - i, hi)
    IN  IF n >= lo THEN i + n ELSE 0

PhoneSeps == {"-"} \cup SpaceSet

\* [-\s]? then a tail, the separator taken first when it is there.
WithOptionalSep(t, i, TailAt(_)) ==
    IF i <= Len(t) /\ Ch(t, i) \in PhoneSeps /\ TailAt(i + 1) # 0 THEN TailAt(i + 1)
    ELSE TailAt(i)

\* /\+91[-\s]?[6-9]\d{9}/ at position i.
IndianPhoneAt(t, i) ==
    IF MatchAt(t, i, "+91")
    THEN WithOptionalSep(t, i + 3,
             LAMBDA j : IF j <= Len(t) /\ Ch(t, j) \in {"6", "7", "8", "9"}
                        THEN DigitsAt(t, j + 1, 9, 9) ELSE 0)
    ELSE 0

\* /\+\d{1,3}[-\s]?\d{8,15}/ at position i: the country code as long as it can be.
IntlPhoneAt(t, i) ==
    IF i <= Len(t) /\ Ch(t, i) = "+"
    THEN LET run == RunEnd(t, i + 1, DigitSet) - (i + 1)
             ends == [k \in 1..3 |->
                        IF k <= run
                        THEN WithOptionalSep(t, i + 1 + k, LAMBDA j : DigitsAt(t, j, 8, 15))
                        ELSE 0]
         IN  IF ends[3] # 0 THEN ends[3] ELSE IF ends[2] # 0 THEN ends[2] ELSE ends[1]
    ELSE 0

PhoneAt(t, i) ==
    Bind(IndianPhoneAt(t, i), LAMBDA indian : IF indian # 0 THEN indian ELSE IntlPhoneAt(t, i))

\* text.match(phoneRegex)?.[0] || ""
MatchPhone(t) ==
    Bind(FirstOf({ i \in 1..Len(t) : Ch(t, i) = "+" /\ PhoneAt(t, i) # 0 }), LAMBDA at :
        IF at = 0 THEN "" ELSE SubSeq(t, at, PhoneAt(t, at) - 1))

\* Optional literal prefixes (any letter case), the longest first: the index after them.
SkipPrefix(t, i, prefixes) ==
    Bind(SelectSeq(prefixes, LAMBDA pre : MatchAt(toLowerCase(SubSeq(t, i, Min(Len(t), i + 8))), 1, pre)),
         LAMBDA hit : IF Len(hit) = 0 THEN i ELSE i + Len(hit[1]))

\* The host of a profile link, in any letter case, at position i.
HostAt(t, i, host) ==
    MatchAt(toLowerCase(SubSeq(t, i, Min(Len(t), i + Len(host) - 1))), 1, host)

\* /(?:https?:\/\/)?(?:www\.)?HOST\/[^\s|\]]+/gi at position i: the index after the
\* match, 0 if none.
ProfileAt(t, i, host) ==
    Bind(SkipPrefix(t, SkipPrefix(t, i, <<"https://", "http://">>), <<"www.">>), LAMBDA h :
    Bind(RunEnd(t, h + Len(host), CharsOf(t) \ (SpaceSet \cup {"|", "]"})), LAMBDA stop :
        IF HostAt(t, h, host) /\ stop > h + Len(host) THEN stop ELSE 0))

\* text.match(linkedinRegex)?.[0] || "", and the same for githubRegex.
MatchProfile(t, host) ==
    Bind(FirstOf({ k \in 1..Len(t) : HostAt(t, k, host) }), LAMBDA first :
    Bind(IF first = 0 THEN 0 ELSE FirstOf({ i \in 1..first : ProfileAt(t, i, host) # 0 }),
         LAMBDA at :
        IF at = 0 THEN "" ELSE SubSeq(t, at, ProfileAt(t, at, host) - 1)))

extractContactInfo(t) ==
    [email |-> MatchEmail(t),
     phone |-> MatchPhone(t),
     linkedin |-> MatchProfile(t, "linkedin.com/"),
     github |-> MatchProfile(t, "github.com/")]

-----------------------------------------------------------------------------
(* Name extraction *)

HasAnyChar(s, Class) == \E i \in 1..Len(s) : Ch(s, i) \in Class

\* part_000 line 91: /[@+\d]|resume|cv|curriculum/i
StrictNameStopPattern(line) ==
    \/ HasAnyChar(line, {"@", "+"} \cup DigitSet)
    \/ includes(toLowerCase(line), "resume")
    \/ includes(toLowerCase(line), "cv")
    \/ includes(toLowerCase(line), "curriculum")

\* resumeParser2.js lines 311, 383: /[@+\d]|resume|cv/i
DualNameStopPattern(line) ==
    \/ HasAnyChar(line, {"@", "+"} \cup DigitSet)
    \/ includes(toLowerCase(line), "resume")
    \/ includes(toLowerCase(line), "cv")

\* part_000 lines 98-102: hasProperCase.
hasProperCase(words) ==
    \A k \in 1..Len(words) :
        /\ Len(words[k]) > 0
        /\ Ch(words[k], 1) = toUpperCase(Ch(words[k], 1))
        /\ Tail(words[k]) = toLowerCase(Tail(words[k]))

\* part_000 lines 88-106: the line is returned as the name.
StrictNameTest(raw) ==
    LET line == trim(raw)
        words == splitWhitespace(line)
    IN  /\ ~(StrictNameStopPattern(line) \/ Len(line) < 3 \/ Len(line) > 50)
        /\ Len(words) >= 2 /\ Len(words) <= 4
        /\ hasProperCase(words)

\* part_000 line 87: Math.min(5, lines.length).
NameWindow == 5

\* The first line taken as the name whatever the window holds.
NameIsFirstLine(ls) == IF Len(ls) > 0 THEN trim(ls[1]) ELSE ""

\* part_000 lines 86-111.
extractName(ls) ==
    LET cand == SelectSeq(Indices(ls), LAMBDA i : i <= NameWindow /\ StrictNameTest(ls[i]))
    IN  IF Len(cand) > 0 THEN trim(ls[cand[1]])
        ELSE IF Len(ls) > 0 THEN trim(ls[1])
        ELSE ""

\* resumeParser2.js lines 308-313 and 380-385: the callback of lines.find.
DualNameTest(line) ==
    LET words == splitWhitespace(line)
    IN  /\ Len(words) >= 2 /\ Len(words) <= 4
        /\ ~DualNameStopPattern(line)
        /\ \A k \in 1..Len(words) : Ch(words[k], 1) = toUpperCase(Ch(words[k], 1))

\* resumeParser2.js lines 308-313 and 380-385: lines.find(...) || lines[0] || "".
findName(ls) ==
    LET cand == SelectSeq(Indices(ls), LAMBDA i : DualNameTest(ls[i]))
    IN  IF Len(cand) > 0 /\ ls[cand[1]] # "" THEN ls[cand[1]]
        ELSE IF Len(ls) > 0 /\ ls[1] # "" THEN ls[1]
        ELSE ""

-----------------------------------------------------------------------------
(* Skills *)

TrimAll(seq) == [k \in 1..Len(seq) |-> trim(seq[k])]

SkillSeps == {",", "|", BULLET}

\* part_000 line 278: /^([^:]+):\s*(.+)$/ matches: a first colon with text on both
\* sides; the second group starts after the blanks that follow the colon.
HasCategory(line) == indexOf(line, ":") >= 1 /\ indexOf(line, ":") + 1 < Len(line)

CategoryText(line) ==
    LET rest == SubSeq(line, indexOf(line, ":") + 2, Len(line))
        a == RunEnd(rest, 1, SpaceSet)
    IN  IF a > Len(rest) THEN Ch(rest, Len(rest)) ELSE SubSeq(rest, a, Len(rest))

\* part_000 lines 276-288: the skills one line contributes.
SkillsOfLine(line) ==
    IF HasCategory(line)
    THEN SelectSeq(TrimAll(splitRuns(CategoryText(line), {",", "|"})),
                   LAMBDA sk : Len(sk) > 0)
    ELSE SelectSeq(TrimAll(splitRuns(line, SkillSeps)),
                   LAMBDA sk : Len(sk) > 0 /\ Len(sk) < 50)

\* part_000 lines 273-291.
parseSkills(ls) == Dedup(Flatten([k \in 1..Len(ls) |-> SkillsOfLine(ls[k])]))

\* resumeParser2.js lines 409-412: the skills one line contributes.
PrimarySkillsOfLine(line) ==
    LET colonIndex == indexOf(line, ":")
        skillText == IF colonIndex > -1 THEN SubSeq(line, colonIndex + 2, Len(line)) ELSE line
    IN  SelectSeq(TrimAll(splitRuns(skillText, SkillSeps)),
                  LAMBDA sk : Len(sk) > 1 /\ Len(sk) < 50)

\* resumeParser2.js lines 407-413, deduplicated at line 439.
PrimarySkills(ls) == Dedup(Flatten([k \in 1..Len(ls) |-> PrimarySkillsOfLine(ls[k])]))

\* resumeParser2.js lines 321-331, deduplicated at line 365.
SecondarySkills(raw) ==
    IF "skills" \notin DOMAIN raw THEN << >>
    ELSE LET skillLines == split(raw["skills"].rawText, {"\n", ":"})
             kept == SelectSeq(skillLines, LAMBDA l : trim(l) # "")
         IN  Dedup(Flatten([k \in 1..Len(kept) |->
                 SelectSeq(TrimAll(splitRuns(kept[k], SkillSeps)),
                           LAMBDA sk : Len(sk) > 1 /\ Len(sk) < 50)]))

\* part_000 lines 564-571.
LegacySkills(sectionLines) ==
    SelectSeq(SelectSeq(TrimAll(splitRuns(join(sectionLines, " "), SkillSeps)), NonEmpty),
              LAMBDA sk : Len(sk) < 30)

-----------------------------------------------------------------------------
(* Work experience *)

\* /([A-Za-z]{3,9}\s+\d{4})\s*[dash]\s*([A-Za-z]{3,9}\s+\d{4}|Present|Current)/i
\* (part_000 line 154, resumeParser2.js line 172).
HasJobDateRange(line) == RangeMatch(line, FALSE, TRUE, FALSE, <<"present", "current">>) # << >>

\* /^[A-Z][a-z\s]+$/ (part_000 lines 207, 212).
LooksLikeHeading(line) ==
    /\ Len(line) >= 2
    /\ Ch(line, 1) \in UpperSet
    /\ \A k \in 2..Len(line) : Ch(line, k) \in LowerSet \cup SpaceSet

\* line.substring(1).trim()
StripBullet(line) == trim(SubSeq(line, 2, Len(line)))

\* part_000 lines 162-197: the entry opened by the anchor line ls[i].
OpenExperience(ls, i) ==
    Bind(IF i + 1 <= Len(ls) THEN trim(ls[i + 1]) ELSE "", LAMBDA next :
    Bind(extractDatesFromText(trim(ls[i])), LAMBDA dates :
        [company |-> IF i > 1 THEN trim(ls[i - 1]) ELSE "",
         position |-> IF i + 1 <= Len(ls) /\ ~startsWith(next, BULLET) /\ Len(next) > 0
                      THEN next ELSE "",
         startDate |-> dates.startDate,
         endDate |-> dates.endDate,
         description |-> [overview |-> << >>]]))

\* part_000 lines 204-216: a line that is no anchor, met while cur is open.
CollectLine(cur, line) ==
    IF startsWith(line, BULLET)
    THEN [cur EXCEPT !.description.overview = Append(@, StripBullet(line))]
    ELSE IF Len(line) > 0 /\ ~LooksLikeHeading(line) /\ Len(cur.description.overview) > 0
    THEN [cur EXCEPT !.description.overview = Append(@, line)]
    ELSE cur

\* part_000 lines 204-216: collectingBullets after such a line; only the last
\* branch, a short heading-like line, clears it.
StillCollecting(line) ==
    Bind(LooksLikeHeading(line), LAMBDA heading :
        ~(~startsWith(line, BULLET) /\ ~(Len(line) > 0 /\ ~heading)
          /\ heading /\ Len(line) < 30))

\* part_000 lines 150-217: the loop from line i on; done holds the closed entries,
\* cur the open one (<< >> for null).
RECURSIVE WorkExperienceLoop(_, _, _, _, _)
WorkExperienceLoop(ls, i, done, cur, collectingBullets) ==
    IF i > Len(ls) THEN done \o cur
    ELSE Bind(trim(ls[i]), LAMBDA line :
             IF HasJobDateRange(line)
             THEN WorkExperienceLoop(ls, i + 1, done \o cur, << OpenExperience(ls, i) >>, TRUE)
             ELSE IF collectingBullets /\ cur # << >>
             THEN WorkExperienceLoop(ls, i + 1, done, << CollectLine(cur[1], line) >>,
                                     StillCollecting(line))
             ELSE WorkExperienceLoop(ls, i + 1, done, cur, collectingBullets))

\* part_000 lines 145-225.
parseWorkExperience(ls) == WorkExperienceLoop(ls, 1, << >>, << >>, FALSE)

\* /\d{4}/
HasFourDigits(line) == \E i \in 1..Len(line) : YearAt(line, i) # 0

\* The index after the bullet lines that start at i.
RECURSIVE BulletsEnd(_, _)
BulletsEnd(ls, i) ==
    IF i <= Len(ls) /\ startsWith(ls[i], BULLET) THEN BulletsEnd(ls, i + 1) ELSE i

\* resumeParser2.js lines 174-209: the entry whose company line is ls[i] and whose
\* date line is ls[i + 1]; next is the value of the scan pointer after it, used
\* the positions of the lines the entry was built from (company, date line,
\* position, location, bullets).
RawExperienceAt(ls, i) ==
    Bind(i + 2 <= Len(ls) /\ ~startsWith(ls[i + 2], BULLET), LAMBDA hasPosition :
    Bind(IF hasPosition THEN i + 3 ELSE i + 2, LAMBDA l :
    Bind(hasPosition /\ l <= Len(ls) /\ ~startsWith(ls[l], BULLET) /\ Len(trim(ls[l])) < 30,
         LAMBDA hasLocation :
    Bind(IF hasLocation THEN l + 1 ELSE l, LAMBDA b :
    Bind(BulletsEnd(ls, b), LAMBDA e :
    Bind(extractDateRange(trim(ls[i + 1])), LAMBDA dates :
        [next |-> e,
         used |-> {i, i + 1} \cup (IF hasPosition THEN {i + 2} ELSE {})
                    \cup (IF hasLocation THEN {l} ELSE {}) \cup b..(e - 1),
         exp |-> [company |-> trim(ls[i]),
                  position |-> IF hasPosition THEN trim(ls[i + 2]) ELSE "",
                  location |-> IF hasLocation THEN trim(ls[l]) ELSE "",
                  startDate |-> dates.startDate,
                  endDate |-> dates.endDate,
                  description |-> [overview |->
                      [k \in 1..(e - b) |-> StripBullet(ls[b + k - 1])]]]]))))))

\* resumeParser2.js lines 161-164: the line is taken as a company line.
LooksLikeCompany(line) ==
    line # "" /\ ~startsWith(line, BULLET) /\ ~HasFourDigits(line) /\ Len(line) > 2

\* resumeParser2.js lines 158-214: the while loop from scan pointer i on.
RECURSIVE RawExperienceLoop(_, _)
RawExperienceLoop(ls, i) ==
    IF i > Len(ls) THEN << >>
    ELSE IF LooksLikeCompany(trim(ls[i])) /\ i + 1 <= Len(ls)
              /\ HasJobDateRange(trim(ls[i + 1]))
    THEN Bind(RawExperienceAt(ls, i), LAMBDA at :
             << at.exp >> \o RawExperienceLoop(ls, at.next))
    ELSE RawExperienceLoop(ls, i + 1)

\* resumeParser2.js lines 153-217.
parseRawExperience(ls) == RawExperienceLoop(ls, 1)

\* part_000 lines 358-363; resumeParser2.js lines 351-353 and 427 (no final trim there;
\* positions are stored trimmed).
extractJobRoles(workExperience) ==
    TrimAll(SelectSeq([k \in 1..Len(workExperience) |-> workExperience[k].position],
                      LAMBDA pos : pos # "" /\ Len(trim(pos)) > 0))

-----------------------------------------------------------------------------
(* Education *)

\* An alternation of literals, any letter case, matched at position i: the first
\* alternative that fits, "" if none.
LiteralAt(line, i, literals) ==
    Bind(SelectSeq(literals, LAMBDA w : MatchAt(toLowerCase(line), i, w)), LAMBDA hit :
        IF Len(hit) = 0 THEN "" ELSE SubSeq(line, i, i + Len(hit[1]) - 1))

\* line.match(/a|b|.../i): position and text of the leftmost match, << >> if none.
LiteralMatch(line, literals) ==
    Bind(FirstOf({ i \in 1..Len(line) : LiteralAt(line, i, literals) # "" }), LAMBDA at :
        IF at = 0 THEN << >> ELSE [index |-> at, text |-> LiteralAt(line, at, literals)])

\* /B\.?Tech|Bachelor|Master|M\.?Tech|B\.?Sc|M\.?Sc|B\.?A|M\.?A|BBA|MBA|ACA/i, each
\* optional period tried present first (part_000 line 233, resumeParser2.js line 232).
DegreeLiterals ==
    <<"b.tech", "btech", "bachelor", "master", "m.tech", "mtech", "b.sc", "bsc", "m.sc",
      "msc", "b.a", "ba", "m.a", "ma", "bba", "mba", "aca">>

\* resumeParser2.js line 227: the same alternation followed by University|College.
RawDegreeLiterals == DegreeLiterals \o <<"university", "college">>

\* part_000 line 241, resumeParser2.js line 233.
FieldLiterals ==
    <<"computer science", "engineering", "commerce", "arts", "science", "management",
      "accounting">>

\* str.replace(/\./g, '')
RECURSIVE StripPeriods(_)
StripPeriods(str) ==
    IF str = "" THEN ""
    ELSE (IF Head(str) = "." THEN "" ELSE Head(str)) \o StripPeriods(Tail(str))

\* line.match(/\d{4}/g): the four-digit groups from position i on, left to right.
RECURSIVE YearsFrom(_, _)
YearsFrom(line, i) ==
    IF i > Len(line) THEN << >>
    ELSE IF YearAt(line, i) # 0 THEN << SubSeq(line, i, i + 3) >> \o YearsFrom(line, i + 4)
    ELSE YearsFrom(line, i + 1)

\* /CGPA\s*:?\s*([\d.]+)/i at position i: the captured group, "" if none.
CgpaAt(line, i) ==
    Bind(RunEnd(line, i + 4, SpaceSet), LAMBDA a :
    Bind(RunEnd(line, IF a <= Len(line) /\ Ch(line, a) = ":" THEN a + 1 ELSE a, SpaceSet),
         LAMBDA c :
    Bind(RunEnd(line, c, DigitSet \cup {"."}), LAMBDA e :
        IF MatchAt(toLowerCase(line), i, "cgpa") /\ e > c THEN SubSeq(line, c, e - 1) ELSE "")))

CgpaMatch(line) ==
    Bind(FirstOf({ i \in 1..Len(line) : CgpaAt(line, i) # "" }), LAMBDA at :
        IF at = 0 THEN "" ELSE CgpaAt(line, at))

\* if (cgpaMatch) entry.cgpa = cgpaMatch[1]
WithCgpa(entryRec, line) ==
    Bind(CgpaMatch(line), LAMBDA cgpa :
        IF cgpa # "" THEN entryRec @@ [cgpa |-> cgpa] ELSE entryRec)

\* line.replace(/\d{4}.*/, '')
CutFromYear(line) ==
    Bind(FirstOf({ i \in 1..Len(line) : YearAt(line, i) # 0 }), LAMBDA at :
        IF at = 0 THEN line ELSE SubSeq(line, 1, at - 1))

\* part_000 lines 245-248: the text before the degree, or else the line without
\* the degree, cut at the first four-digit group.
InstitutionOf(line, degreeMatch) ==
    Bind(trim(SubSeq(line, 1, degreeMatch.index - 1)), LAMBDA before :
        IF before # "" THEN before
        ELSE trim(CutFromYear(
                 SubSeq(line, 1, degreeMatch.index - 1)
                   \o SubSeq(line, degreeMatch.index + Len(degreeMatch.text), Len(line)))))

\* part_000 lines 236-266: the entry of one line that names a degree.
EducationEntry(line) ==
    Bind(LiteralMatch(line, DegreeLiterals), LAMBDA degreeMatch :
    Bind(YearsFrom(line, 1), LAMBDA years :
    Bind(LiteralMatch(line, FieldLiterals), LAMBDA fieldMatch :
    Bind(InstitutionOf(line, degreeMatch), LAMBDA institution :
        WithCgpa([institution |-> IF institution # "" THEN institution ELSE trim(line),
                  degree |-> StripPeriods(degreeMatch.text),
                  fieldOfStudy |-> IF fieldMatch # << >> THEN fieldMatch.text ELSE "",
                  startDate |-> IF Len(years) >= 2 THEN years[1] \o "-01-01" ELSE "",
                  endDate |-> IF Len(years) >= 2 THEN years[2] \o "-12-31" ELSE ""],
                 line)))))

\* part_000 lines 228-270.
parseEducation(ls) ==
    Bind(SelectSeq(ls, LAMBDA line : LiteralMatch(line, DegreeLiterals) # << >>), LAMBDA kept :
        [k \in 1..Len(kept) |-> EducationEntry(kept[k])])

\* /(\d{4})\s*[dash]\s*(\d{4})/ (resumeParser2.js line 228) at position i: the text
\* matched and its two groups.
YearRangeAt(line, i) ==
    Bind(RunEnd(line, RunEnd(line, i + 4, SpaceSet) + 1, SpaceSet), LAMBDA q :
        [text |-> SubSeq(line, i, q + 3),
         groups |-> RangeAt(line, i, TRUE, FALSE, TRUE, << >>)])

YearRangeMatch(line) ==
    Bind(FirstOf({ i \in 1..Len(line) :
                     RangeAt(line, i, TRUE, FALSE, TRUE, << >>) # << >> }), LAMBDA at :
        IF at = 0 THEN << >> ELSE YearRangeAt(line, at))

\* str.replace(sub, ''): the first occurrence of sub removed.
RemoveFirst(str, sub) ==
    Bind(indexOf(str, sub), LAMBDA at :
        IF at < 0 THEN str
        ELSE SubSeq(str, 1, at) \o SubSeq(str, at + Len(sub) + 1, Len(str)))

\* resumeParser2.js lines 237-244: the text before the degree (the line when there
\* is none), without the year range.
RawInstitutionOf(line, degreeMatch, yearMatch) ==
    Bind(IF degreeMatch # << >> THEN trim(SubSeq(line, 1, degreeMatch.index - 1)) ELSE line,
         LAMBDA institution :
        IF yearMatch # << >> THEN trim(RemoveFirst(institution, yearMatch.text))
        ELSE institution)

\* resumeParser2.js lines 230-253: the entry of one line the degree pattern accepts.
RawEducationEntry(line) ==
    Bind(YearRangeMatch(line), LAMBDA yearMatch :
    Bind(LiteralMatch(line, DegreeLiterals), LAMBDA degreeMatch :
    Bind(LiteralMatch(line, FieldLiterals), LAMBDA fieldMatch :
    Bind(RawInstitutionOf(line, degreeMatch, yearMatch), LAMBDA institution :
        WithCgpa([institution |-> IF institution # "" THEN institution ELSE trim(line),
                  degree |-> IF degreeMatch # << >> THEN StripPeriods(degreeMatch.text) ELSE "",
                  fieldOfStudy |-> IF fieldMatch # << >> THEN fieldMatch.text ELSE "",
                  startDate |-> IF yearMatch # << >> THEN yearMatch.groups[1] \o "-01-01" ELSE "",
                  endDate |-> IF yearMatch # << >> THEN yearMatch.groups[2] \o "-12-31" ELSE ""],
                 line)))))

\* resumeParser2.js lines 219-257.
parseRawEducation(ls) ==
    Bind(SelectSeq(ls, LAMBDA line :
             Len(trim(line)) # 0 /\ LiteralMatch(line, RawDegreeLiterals) # << >>), LAMBDA kept :
        [k \in 1..Len(kept) |-> RawEducationEntry(kept[k])])

-----------------------------------------------------------------------------
(* Projects and certifications *)

\* str.match(/word[^\s]*/i)?.[0], "" when there is no match.
LinkMatch(str, word) ==
    Bind(indexOf(toLowerCase(str), word), LAMBDA at :
        IF at < 0 THEN ""
        ELSE SubSeq(str, at + 1, RunEnd(str, at + 1 + Len(word), CharsOf(str) \ SpaceSet) - 1))

\* githubMatch?.[0] || liveMatch?.[0] || ""
ProjectLink(str) ==
    Bind(LinkMatch(str, "github"), LAMBDA githubMatch :
        IF githubMatch # "" THEN githubMatch ELSE LinkMatch(str, "live"))

\* parts[1] ? parts[1].trim() : "" for parts = line.split('|').
SecondPart(line) ==
    Bind(split(line, {"|"}), LAMBDA parts : IF Len(parts) >= 2 THEN trim(parts[2]) ELSE "")

\* part_000 lines 302-303: the line opens a project.
LooksLikeProjectTitle(line) ==
    \/ includes(line, "|") \/ includes(line, "GitHub") \/ includes(line, "Live")
    \/ (Len(line) > 0 /\ Ch(line, 1) \in UpperSet /\ ~startsWith(line, BULLET))

\* part_000 lines 310-323.
OpenProject(line) ==
    [title |-> trim(split(line, {"|"})[1]),
     description |-> << >>,
     technologies |-> SecondPart(line),
     link |-> ProjectLink(line)]

\* part_000 lines 298-328: the loop from line i on; cur is the open project
\* (<< >> for null).
RECURSIVE ProjectsLoop(_, _, _, _)
ProjectsLoop(ls, i, projects, cur) ==
    IF i > Len(ls) THEN projects \o cur
    ELSE Bind(trim(ls[i]), LAMBDA line :
             IF LooksLikeProjectTitle(line)
             THEN ProjectsLoop(ls, i + 1, projects \o cur, << OpenProject(line) >>)
             ELSE IF cur # << >> /\ startsWith(line, BULLET)
             THEN ProjectsLoop(ls, i + 1, projects,
                      << [cur[1] EXCEPT !.description = Append(@, StripBullet(line))] >>)
             ELSE ProjectsLoop(ls, i + 1, projects, cur))

\* part_000 lines 294-335.
parseProjects(ls) == ProjectsLoop(ls, 1, << >>, << >>)

\* str.replace(/GitHub[^\s]*|Live[^\s]*/gi, ''), from position i on.
RECURSIVE StripLinks(_, _)
StripLinks(str, i) ==
    IF i > Len(str) THEN ""
    ELSE IF MatchAt(toLowerCase(str), i, "github") \/ MatchAt(toLowerCase(str), i, "live")
    THEN StripLinks(str, RunEnd(str, i, CharsOf(str) \ SpaceSet))
    ELSE Ch(str, i) \o StripLinks(str, i + 1)

\* resumeParser2.js lines 269-291: the project whose title line is ls[i].
RawProjectAt(ls, i) ==
    Bind(trim(ls[i]), LAMBDA line :
    Bind(SecondPart(line), LAMBDA technologies :
    Bind(BulletsEnd(ls, i + 1), LAMBDA e :
        [title |-> trim(split(line, {"|"})[1]),
         description |-> [k \in 1..(e - i - 1) |-> StripBullet(ls[i + k])],
         technologies |-> trim(StripLinks(technologies, 1)),
         link |-> ProjectLink(technologies)])))

\* resumeParser2.js lines 263-296: the while loop from scan pointer i on.
RECURSIVE RawProjectsLoop(_, _)
RawProjectsLoop(ls, i) ==
    IF i > Len(ls) THEN << >>
    ELSE IF includes(trim(ls[i]), "|") /\ ~startsWith(trim(ls[i]), BULLET)
    THEN << RawProjectAt(ls, i) >> \o RawProjectsLoop(ls, BulletsEnd(ls, i + 1))
    ELSE RawProjectsLoop(ls, i + 1)

\* resumeParser2.js lines 259-299.
parseRawProjects(ls) == RawProjectsLoop(ls, 1)

\* line.replace(/^[bullet]\s*/, '').trim()
CleanBullet(line) == IF startsWith(line, BULLET) THEN trim(Tail(line)) ELSE trim(line)

\* line.startsWith(bullet) || line.trim().length > 10
LooksLikeCertification(line) == startsWith(line, BULLET) \/ Len(trim(line)) > 10

Certification(line) == [name |-> CleanBullet(line), issuer |-> "", date |-> ""]

\* part_000 lines 338-355.
parseCertifications(ls) ==
    Bind(SelectSeq(ls, LAMBDA line :
             LooksLikeCertification(line) /\ Len(CleanBullet(line)) > 0), LAMBDA kept :
        [k \in 1..Len(kept) |-> Certification(kept[k])])

\* resumeParser2.js lines 338-346 and 417-425: the loop has no test on the cleaned line.
RawCertifications(ls) ==
    Bind(SelectSeq(ls, LooksLikeCertification), LAMBDA kept :
        [k \in 1..Len(kept) |-> Certification(kept[k])])

\* resumeParser2.js lines 335-337: the two raw texts concatenated, split into lines.
AchievementLines(raw) ==
    LET rawTextOf(name) == IF name \in DOMAIN raw THEN raw[name].rawText ELSE ""
    IN  SelectSeq(split(rawTextOf("achievements") \o rawTextOf("certifications"), {"\n"}),
                  LAMBDA line : trim(line) # "")

-----------------------------------------------------------------------------
(* The returned record *)

StringFields == {"name", "email", "phone", "address", "summary", "linkedin"}

\* part_000 lines 408-412: the field is deleted from the record.
IsEmptyField(f, v) == IF f \in StringFields THEN trim(v) = "" ELSE Len(v) = 0

\* part_000 lines 407-413.
CleanUp(resume) ==
    [f \in { f \in DOMAIN resume : ~IsEmptyField(f, resume[f]) } |-> resume[f]]

\* hobbiesContent.join(' ').split(/[,|]+/).map(h => h.trim()).filter(Boolean)
ListOf(ls) == SelectSeq(TrimAll(splitRuns(join(ls, " "), {",", "|"})), NonEmpty)

\* part_000 lines 389-404: const resume.
StrictRecord(ls, c, contactInfo, workExperience) ==
    [name |-> extractName(ls),
     email |-> contactInfo.email,
     phone |-> contactInfo.phone,
     address |-> "",
     summary |-> join(c["summary"], " "),
     linkedin |-> contactInfo.linkedin,
     jobRole |-> extractJobRoles(workExperience),
     education |-> parseEducation(c["education"]),
     workExperience |-> workExperience,
     skills |-> parseSkills(c["skills"]),
     projects |-> parseProjects(c["projects"]),
     certifications |-> parseCertifications(c["certifications"]),
     languages |-> ListOf(c["languages"]),
     hobbies |-> ListOf(c["hobbies"])]

\* part_000 lines 369-404: the record before the clean-up.
StrictResume(t, ls, c) ==
    StrictRecord(ls, c, extractContactInfo(t), parseWorkExperience(c["experience"]))

\* resumeParser2.js lines 355-370 and 429-444: the object literal returned.
DualRecord(ls, contactInfo, workExperience, education, projects, skills, certifications) ==
    [name |-> findName(ls),
     email |-> contactInfo.email,
     phone |-> contactInfo.phone,
     address |-> "",
     summary |-> "",
     linkedin |-> contactInfo.linkedin,
     jobRole |-> extractJobRoles(workExperience),
     education |-> education,
     workExperience |-> workExperience,
     skills |-> skills,
     projects |-> projects,
     certifications |-> certifications,
     languages |-> << >>,
     hobbies |-> << >>]

\* resumeParser2.js lines 377-444.
PrimaryResume(t, ls, c) ==
    DualRecord(ls, extractContactInfo(t),
               parseRawExperience(c["experience"]),
               parseRawEducation(c["education"]),
               parseRawProjects(c["projects"]),
               PrimarySkills(c["skills"]),
               RawCertifications(c["certifications"]))

\* rawSections[name] ? rawSections[name].content : []
RawContentOf(raw, name) == IF name \in DOMAIN raw THEN raw[name].content ELSE << >>

\* resumeParser2.js lines 304-370.
SecondaryResume(t, ls, raw) ==
    DualRecord(ls, extractContactInfo(t),
               parseRawExperience(RawContentOf(raw, "experience")),
               parseRawEducation(RawContentOf(raw, "education")),
               parseRawProjects(RawContentOf(raw, "projects")),
               SecondarySkills(raw),
               RawCertifications(AchievementLines(raw)))

\* extractSection(...)[0] || "" followed by the split of part_000 lines 583 and 588.
LegacyList(sectionLines) ==
    IF Len(sectionLines) = 0 THEN << >>
    ELSE SelectSeq(TrimAll(splitRuns(sectionLines[1], SkillSeps)), NonEmpty)

\* part_000 lines 498-591: the fields of the legacy record that the section slices
\* determine.  name (compromise), education, workExperience and certifications
\* (chrono.parse on free text) are computed by libraries and are left out of the
\* record; email, phone and linkedin do not depend on the sections.
LegacyResume(c) ==
    [address |-> "",
     summary |-> IF Len(c["summary"]) > 0 THEN c["summary"][1] ELSE "",
     jobRole |-> << >>,
     skills |-> LegacySkills(c["skills"]),
     languages |-> LegacyList(c["languages"]),
     hobbies |-> LegacyList(c["hobbies"])]

-----------------------------------------------------------------------------
(* The entry points, step by step *)

Entries == {"strict", "primary", "secondary", "legacy"}

\* part_000 lines 372-379.
StrictContentTypes == {"summary", "education", "experience", "skills", "projects",
                       "certifications", "languages", "hobbies"}

\* resumeParser2.js lines 395-399.
PrimaryContentTypes == {"experience", "education", "skills", "projects", "certifications"}

LegacyFieldOrder == <<"summary", "education", "workExperience", "skills", "projects",
                      "certifications", "languages", "hobbies">>

\* resumeParser2.js line 157: let i = 0, nothing pushed yet.
ScanStart == [i |-> 0, used |-> << >>]

Documents(Corpus, n) == { join(d, "\n") : d \in SeqsUpTo(Corpus, n) }

InitWith(Docs) ==
    /\ entry \in Entries
    /\ text \in Docs
    /\ pc = "called"
    /\ lines = << >>
    /\ sections = << >>
    /\ content = << >>
    /\ result = << >>
    /\ scan = ScanStart

\* const lines = text.split(/\r?\n/).map(l => l.trim()).filter(Boolean), the first
\* statement of each entry point.
Normalize ==
    /\ pc = "called"
    /\ lines' = NormalizeLines(text)
    /\ pc' = "lines"
    /\ UNCHANGED <<scan, entry, text, sections, content, result>>

\* part_000 line 368.
StrictDetect ==
    /\ entry = "strict" /\ pc = "lines"
    /\ sections' = detectSectionBoundaries(lines)
    /\ pc' = "detected"
    /\ UNCHANGED <<scan, entry, text, lines, content, result>>

\* part_000 lines 372-379.
StrictSlice ==
    /\ entry = "strict" /\ pc = "detected"
    /\ content' = [t \in StrictContentTypes |-> getSectionContent(sections, lines, t)]
    /\ pc' = "sliced"
    /\ UNCHANGED <<scan, entry, text, lines, sections, result>>

\* resumeParser2.js line 376.
PrimaryDetect ==
    /\ entry = "primary" /\ pc = "lines"
    /\ sections' = detectSections(lines)
    /\ pc' = "detected"
    /\ UNCHANGED <<scan, entry, text, lines, content, result>>

\* resumeParser2.js lines 395-399.
PrimarySlice ==
    /\ entry = "primary" /\ pc = "detected"
    /\ content' = [t \in PrimaryContentTypes |-> getSectionLines(sections, lines, t)]
    /\ pc' = "sliced"
    /\ UNCHANGED <<scan, entry, text, lines, sections, result>>

\* resumeParser2.js line 305.
SecondaryExtractRaw ==
    /\ entry = "secondary" /\ pc = "lines"
    /\ sections' = sectionBoundaries(lines)
    /\ content' = extractRawSections(lines)
    /\ pc' = "sliced"
    /\ UNCHANGED <<scan, entry, text, lines, result>>

\* part_000 lines 505-591: one extractSection call per field; sections records the
\* line each call took as its header.
LegacyExtract ==
    /\ entry = "legacy" /\ pc = "lines"
    /\ sections' =
          LET found == SelectSeq(LegacyFieldOrder, LAMBDA f : LegacyHeaderIndex(lines, f) >= 0)
          IN  [n \in 1..Len(found) |->
                  [type |-> found[n], startIndex |-> LegacyHeaderIndex(lines, found[n]),
                   header |-> lines[LegacyHeaderIndex(lines, found[n]) + 1]]]
    /\ content' = [f \in LegacyFields |-> extractSection(lines, f)]
    /\ pc' = "sliced"
    /\ UNCHANGED <<scan, entry, text, lines, result>>

\* part_000 lines 382-415.
StrictAssemble ==
    /\ entry = "strict" /\ pc = "sliced"
    /\ result' = CleanUp(StrictResume(text, lines, content))
    /\ pc' = "done"
    /\ UNCHANGED <<scan, entry, text, lines, sections, content>>

\* resumeParser2.js lines 402-444.
PrimaryAssemble ==
    /\ entry = "primary" /\ pc = "sliced"
    /\ result' = PrimaryResume(text, lines, content)
    /\ pc' = "done"
    /\ UNCHANGED <<scan, entry, text, lines, sections, content>>

\* resumeParser2.js lines 307-370.
SecondaryAssemble ==
    /\ entry = "secondary" /\ pc = "sliced"
    /\ result' = SecondaryResume(text, lines, content)
    /\ pc' = "done"
    /\ UNCHANGED <<scan, entry, text, lines, sections, content>>

\* part_000 lines 498-593.
LegacyAssemble ==
    /\ entry = "legacy" /\ pc = "sliced"
    /\ result' = LegacyResume(content)
    /\ pc' = "done"
    /\ UNCHANGED <<scan, entry, text, lines, sections, content>>

Next ==
    \/ Normalize
    \/ StrictDetect
    \/ StrictSlice
    \/ StrictAssemble
    \/ PrimaryDetect
    \/ PrimarySlice
    \/ PrimaryAssemble
    \/ SecondaryExtractRaw
    \/ SecondaryAssemble
    \/ LegacyExtract
    \/ LegacyAssemble

\* Documents of up to MaxLines lines with section headers and content lines.
Init == InitWith(Documents(SectionCorpus, MaxLines))

Spec == Init /\ [][Next]_vars

\* Documents that open with a skills header followed by up to MaxSkillLines lines.
SkillDocuments == { join(<<"Skills">> \o d, "\n") : d \in SeqsUpTo(SkillCorpus, MaxSkillLines) }

InitSkills == InitWith(SkillDocuments)

SpecSkills == InitSkills /\ [][Next]_vars

\* Documents of up to MaxNameLines lines that are names or contact lines.
InitNames == InitWith(Documents(NameCorpus, MaxNameLines))

SpecNames == InitNames /\ [][Next]_vars

-----------------------------------------------------------------------------
(* The date extractors on their own *)

DatePrefixes == {"", "Acme Corp "}
MonthYearStarts == {"Jan 2023", "September 2021"}
DateStarts == MonthYearStarts \cup {"2020"}
DashSeps == {" - ", "~"}
DateSeps == DashSeps \cup {" to "}
SentinelEnds == {"Present", "present", "CURRENT", "Ongoing", "ongoing"}
DateEnds == SentinelEnds \cup {"Dec 2025", "2024", ""}

DateFragments ==
    { pre \o start \o sep \o end :
        pre \in DatePrefixes, start \in DateStarts, sep \in DateSeps, end \in DateEnds }

DateEntries == {"extractDateRange", "extractDatesFromText"}

InitDates ==
    /\ entry \in DateEntries
    /\ text \in DateFragments
    /\ pc = "called"
    /\ lines = << >>
    /\ sections = << >>
    /\ content = << >>
    /\ result = << >>
    /\ scan = ScanStart

\* resumeParser2.js lines 77-112.
CallExtractDateRange ==
    /\ entry = "extractDateRange" /\ pc = "called"
    /\ result' = extractDateRange(text)
    /\ pc' = "done"
    /\ UNCHANGED <<scan, entry, text, lines, sections, content>>

\* part_000 lines 114-142.
CallExtractDatesFromText ==
    /\ entry = "extractDatesFromText" /\ pc = "called"
    /\ result' = extractDatesFromText(text)
    /\ pc' = "done"
    /\ UNCHANGED <<scan, entry, text, lines, sections, content>>

NextDates ==
    \/ CallExtractDateRange
    \/ CallExtractDatesFromText

SpecDates == InitDates /\ [][NextDates]_vars

-----------------------------------------------------------------------------
(* The education parsers on their own *)

MaxEducationLines == 3

EducationCorpus ==
    { "B.Tech CS 2019 - 2023", "Stanford University 2019 - 2023", "Bachelor of Arts",
      "MIT", "CGPA: 9.1" }

\* part_000 line 518: /\d{4}/.test(line) || /CGPA|GPA|Score/i.test(line)
ClosesGroup(line) ==
    \/ HasFourDigits(line)
    \/ includes(toLowerCase(line), "gpa")
    \/ includes(toLowerCase(line), "score")

\* part_000 lines 515-526: the lines of the section grouped into entries; buffer
\* holds the lines of the group that is open.
RECURSIVE GroupedEntries(_, _, _)
GroupedEntries(sectionLines, i, buffer) ==
    IF i > Len(sectionLines)
    THEN (IF Len(buffer) > 0 THEN << join(buffer, " ") >> ELSE << >>)
    ELSE IF trim(sectionLines[i]) = "" THEN GroupedEntries(sectionLines, i + 1, buffer)
    ELSE IF ClosesGroup(sectionLines[i])
    THEN << join(Append(buffer, sectionLines[i]), " ") >>
             \o GroupedEntries(sectionLines, i + 1, << >>)
    ELSE GroupedEntries(sectionLines, i + 1, Append(buffer, sectionLines[i]))

\* part_000 line 533: the degree alternation of the legacy parser.
LegacyDegreeLiterals ==
    <<"bachelor", "master", "b.tech", "btech", "m.tech", "mtech", "b.sc", "bsc", "m.sc",
      "msc", "b.a", "ba", "m.a", "ma", "bba", "mba", "llb", "llm", "ph.d", "phd",
      "diploma", "pgdm">>

\* part_000 lines 529-549: one object per grouped entry.  Only the degree is kept
\* here: institution and fieldOfStudy play no part in what follows, and the two
\* dates come from chrono.parse on free text.
LegacyEducation(sectionLines) ==
    Bind(GroupedEntries(sectionLines, 1, << >>), LAMBDA groupedEntries :
        [k \in 1..Len(groupedEntries) |->
            Bind(LiteralMatch(groupedEntries[k], LegacyDegreeLiterals), LAMBDA degreeMatch :
                [degree |-> IF degreeMatch # << >>
                            THEN trim(StripPeriods(degreeMatch.text)) ELSE ""])])

EducationEntries == {"parseEducation", "parseRawEducation", "legacyEducation"}

InitEducation ==
    /\ entry \in EducationEntries
    /\ text = ""
    /\ pc = "called"
    /\ lines \in SeqsUpTo(EducationCorpus, MaxEducationLines)
    /\ sections = << >>
    /\ content = << >>
    /\ result = << >>
    /\ scan = ScanStart

\* part_000 lines 228-270.
CallParseEducation ==
    /\ entry = "parseEducation" /\ pc = "called"
    /\ result' = parseEducation(lines)
    /\ pc' = "done"
    /\ UNCHANGED <<scan, entry, text, lines, sections, content>>

\* resumeParser2.js lines 219-257.
CallParseRawEducation ==
    /\ entry = "parseRawEducation" /\ pc = "called"
    /\ result' = parseRawEducation(lines)
    /\ pc' = "done"
    /\ UNCHANGED <<scan, entry, text, lines, sections, content>>

\* part_000 lines 510-550: the education field of the legacy record, built from
\* the lines extractSection returned.
CallLegacyEducation ==
    /\ entry = "legacyEducation" /\ pc = "called"
    /\ result' = LegacyEducation(lines)
    /\ pc' = "done"
    /\ UNCHANGED <<scan, entry, text, lines, sections, content>>

NextEducation ==
    \/ CallParseEducation
    \/ CallParseRawEducation
    \/ CallLegacyEducation

SpecEducation == InitEducation /\ [][NextEducation]_vars

-----------------------------------------------------------------------------
(* The experience parsers on their own: parseWorkExperience as one step,      *)
(* parseRawExperience one iteration of its while loop at a time.              *)

MaxExperienceLines == 5

ExperienceCorpus == { "Globex Inc.", "Jan 2020 - Present", "Engineer", "* Built X" }

ExperienceEntries == {"parseWorkExperience", "parseRawExperience"}

ExperienceInputs == SeqsUpTo(ExperienceCorpus, MaxExperienceLines)

InitExperience ==
    /\ entry \in ExperienceEntries
    /\ text = ""
    /\ pc = "called"
    /\ lines \in ExperienceInputs
    /\ sections = << >>
    /\ content = << >>
    /\ result = << >>
    /\ scan = ScanStart

\* part_000 lines 145-225.
CallParseWorkExperience ==
    /\ entry = "parseWorkExperience" /\ pc = "called"
    /\ result' = parseWorkExperience(lines)
    /\ pc' = "done"
    /\ UNCHANGED <<scan, entry, text, lines, sections, content>>

\* resumeParser2.js lines 161-172: the tests that let an iteration push an entry.
RawExperienceStartsAt(ls, i) ==
    /\ LooksLikeCompany(trim(ls[i]))
    /\ i + 1 <= Len(ls)
    /\ HasJobDateRange(trim(ls[i + 1]))

\* What the iteration at pointer i does depends on the lines and on i alone: one
\* table, computed once over the inputs. It holds the entry the iteration pushes,
\* with the pointer it continues at, or nothing when the iteration ends at i++.
RawIterations ==
    [ls \in ExperienceInputs |->
        [i \in 1..Len(ls) |->
            IF RawExperienceStartsAt(ls, i) THEN <<RawExperienceAt(ls, i)>> ELSE << >>]
        @@ << >>]
    @@ << >>

\* The iteration that pushes an entry, ending at i++ like every other iteration:
\* the lines the entry consumed are scanned again.
RawExperiencePushThenIncrement ==
    /\ entry = "parseRawExperience" /\ pc = "called"
    /\ scan.i < Len(lines)
    /\ Len(RawIterations[lines][scan.i + 1]) = 1
    /\ Bind(RawIterations[lines][scan.i + 1][1], LAMBDA at :
          /\ result' = Append(result, at.exp)
          /\ scan' = [i |-> scan.i + 1,
                      used |-> Append(scan.used, { u - 1 : u \in at.used })])
    /\ UNCHANGED <<entry, text, pc, lines, sections, content>>

\* resumeParser2.js lines 159-209: an iteration that pushes an entry and continues
\* with the scan pointer behind everything it consumed.
RawExperiencePush ==
    /\ entry = "parseRawExperience" /\ pc = "called"
    /\ scan.i < Len(lines)
    /\ Len(RawIterations[lines][scan.i + 1]) = 1
    /\ Bind(RawIterations[lines][scan.i + 1][1], LAMBDA at :
          /\ result' = Append(result, at.exp)
          /\ scan' = [i |-> at.next - 1,
                      used |-> Append(scan.used, { u - 1 : u \in at.used })])
    /\ UNCHANGED <<entry, text, pc, lines, sections, content>>

\* resumeParser2.js lines 159-213: an iteration that pushes nothing and ends at i++.
RawExperienceSkip ==
    /\ entry = "parseRawExperience" /\ pc = "called"
    /\ scan.i < Len(lines)
    /\ Len(RawIterations[lines][scan.i + 1]) = 0
    /\ scan' = [scan EXCEPT !.i = @ + 1]
    /\ UNCHANGED <<entry, text, pc, lines, sections, content, result>>

\* resumeParser2.js lines 158 and 216: the loop condition fails, experiences is returned.
RawExperienceReturn ==
    /\ entry = "parseRawExperience" /\ pc = "called"
    /\ scan.i >= Len(lines)
    /\ pc' = "done"
    /\ UNCHANGED <<scan, entry, text, lines, sections, content, result>>

\* The steps of the while loop of parseRawExperience.
RawExperienceStep == RawExperiencePush \/ RawExperienceSkip \/ RawExperienceReturn

NextExperience ==
    \/ CallParseWorkExperience
    \/ RawExperiencePush
    \/ RawExperienceSkip
    \/ RawExperienceReturn

\* parseRawExperience is a synchronous function: once called, its loop runs on
\* until the loop condition fails.
SpecExperience == InitExperience /\ [][NextExperience]_vars /\ WF_vars(RawExperienceStep)

-----------------------------------------------------------------------------
(* The project parsers on their own *)

MaxProjectLines == 4

ProjectsCorpus == { "Shop App | React", "* Built cart", "built with care", "* Sync | GitHub" }

ProjectsEntries == {"parseProjects", "parseRawProjects"}

InitProjects ==
    /\ entry \in ProjectsEntries
    /\ text = ""
    /\ pc = "called"
    /\ lines \in SeqsUpTo(ProjectsCorpus, MaxProjectLines)
    /\ sections = << >>
    /\ content = << >>
    /\ result = << >>
    /\ scan = ScanStart

\* part_000 lines 294-335.
CallParseProjects ==
    /\ entry = "parseProjects" /\ pc = "called"
    /\ result' = parseProjects(lines)
    /\ pc' = "done"
    /\ UNCHANGED <<scan, entry, text, lines, sections, content>>

\* resumeParser2.js lines 259-299.
CallParseRawProjects ==
    /\ entry = "parseRawProjects" /\ pc = "called"
    /\ result' = parseRawProjects(lines)
    /\ pc' = "done"
    /\ UNCHANGED <<scan, entry, text, lines, sections, content>>

NextProjects ==
    \/ CallParseProjects
    \/ CallParseRawProjects

SpecProjects == InitProjects /\ [][NextProjects]_vars

-----------------------------------------------------------------------------
(* Properties *)

Pipelines == {"strict", "primary", "secondary"}

\* A parse entry point of the strict or dual pipeline has returned its record.
Returned == pc = "done" /\ entry \in Pipelines

\* C1: the record returned by the strict parseResume, the dual parseResume and
\* parseResumeSecondaryApproach has no top-level field that is an empty string or
\* an empty list.
NoEmptyField ==
    Returned =>
        \A f \in DOMAIN result :
            IF f \in StringFields THEN result[f] # "" ELSE result[f] # << >>

\* The fragment holds a date range (month and year, dash, end) whose end token is
\* present, current or ongoing in some letter case.
IsSentinelRange(t) ==
    \E start \in MonthYearStarts, sep \in DashSeps, end \in SentinelEnds :
        includes(t, start \o sep \o end)

\* C2: for a fragment with a date range that ends in present, current or ongoing
\* (any letter case), extractDateRange and extractDatesFromText return endDate
\* "Present".
SentinelEndIsPresent ==
    (pc = "done" /\ entry \in DateEntries /\ IsSentinelRange(text)) =>
        result.endDate = "Present"

Sliced == pc \in {"sliced", "done"}

\* The header texts of the detected sections.
HeaderLines ==
    { IF entry = "secondary" THEN sections[k].originalName ELSE sections[k].header :
        k \in 1..Len(sections) }

\* The lines handed on as the content of section t.
ContentLines(t) ==
    Bind(IF entry = "secondary" THEN content[t].content ELSE content[t],
         LAMBDA c : { c[i] : i \in 1..Len(c) })

\* C3: the content slice of every section type holds no line that was detected as
\* a section header of any type.
SectionIsolation ==
    (entry \in Entries /\ Sliced) =>
        \A t \in DOMAIN content : ContentLines(t) \cap HeaderLines = {}

\* The skills list of the returned record (<< >> when the field was deleted).
SkillsOf(rec) == IF "skills" \in DOMAIN rec THEN rec["skills"] ELSE << >>

\* C4: the skills list of the returned record holds no two elements that are
\* equal as trimmed strings, in the strict, dual and legacy pipelines.
SkillsDeduplicated ==
    (pc = "done" /\ entry \in Entries) =>
        \A i, j \in 1..Len(SkillsOf(result)) :
            i # j => trim(SkillsOf(result)[i]) # trim(SkillsOf(result)[j])

Detected == pc \in {"detected", "sliced", "done"}

\* The line indices of the content range [startIndex + 1, endIndex) of a span.
ContentRange(sp) == (sp.startIndex + 1)..(sp.endIndex - 1)

\* C6: the spans of detectSectionBoundaries and detectSections are sorted by
\* startIndex, their content ranges are pairwise disjoint, each endIndex is the
\* startIndex of the next span, and the last endIndex is the number of lines.
SpanListWellFormed ==
    (entry \in {"strict", "primary"} /\ Detected) =>
        /\ \A k \in 1..(Len(sections) - 1) :
              /\ sections[k].startIndex <= sections[k + 1].startIndex
              /\ sections[k].endIndex = sections[k + 1].startIndex
        /\ \A j, k \in 1..Len(sections) :
              j # k => ContentRange(sections[j]) \cap ContentRange(sections[k]) = {}
        /\ Len(sections) > 0 => sections[Len(sections)].endIndex = Len(lines)

\* A detector has produced several spans, one of them before the last with
\* content lines.
SpanListWitness ==
    /\ entry \in {"strict", "primary"} /\ Detected
    /\ Len(sections) >= 3
    /\ \E k \in 1..(Len(sections) - 1) : ContentRange(sections[k]) # {}

\* Where the spans of type t start (strict, primary: sections; secondary: boundaries).
StartsOfType(t) ==
    { k \in 1..Len(sections) :
        IF entry = "secondary" THEN sections[k].name = t ELSE sections[k].type = t }

StartIndexOf(k) == IF entry = "secondary" THEN sections[k].index ELSE sections[k].startIndex

\* The lines after the k-th detected header, up to the next detected header.
LinesAfterHeader(k) ==
    slice(lines, StartIndexOf(k) + 1,
          IF k < Len(sections) THEN StartIndexOf(k + 1) ELSE Len(lines))

\* C7: with several headers of one type, the content of the type is what follows
\* the first of them.
FirstHeaderWins ==
    (entry \in Pipelines /\ Sliced) =>
        \A t \in DOMAIN content :
            StartsOfType(t) # {} =>
                (IF entry = "secondary" THEN content[t].content ELSE content[t])
                    = LinesAfterHeader(FirstOf(StartsOfType(t)))

\* The lines of the skills section as the pipeline sliced them.
SkillLines ==
    IF "skills" \notin DOMAIN content THEN << >>
    ELSE IF entry = "secondary" THEN content["skills"].content
    ELSE content["skills"]

\* The text before the first colon of a line.
LabelOf(line) == trim(SubSeq(line, 1, indexOf(line, ":")))

\* C8: for a skills line "label: a, b, c" the label never appears in the skills
\* list, in parseSkills, the dual parseResume and parseResumeSecondaryApproach.
LabelNeverSkill ==
    Returned =>
        \A n \in 1..Len(SkillLines) :
            HasCategory(SkillLines[n]) =>
                \A k \in 1..Len(SkillsOf(result)) :
                    SkillsOf(result)[k] # LabelOf(SkillLines[n])

\* The name of the returned record ("" when the field was deleted).
NameOf(rec) == IF "name" \in DOMAIN rec THEN rec["name"] ELSE ""

HasAt(s) == HasAnyChar(s, {"@"})

\* C9 as stated: the extracted name never holds an "@", the first-line fallback
\* included.
NameHasNoAt == Returned => ~HasAt(NameOf(result))

\* The name test of the pipeline that is running.
PassesNameTest(line) ==
    IF entry = "strict" THEN StrictNameTest(line) ELSE DualNameTest(line)

\* No line that the name search of the pipeline looks at passes its name test.
NoLineQualifies ==
    \A i \in 1..(IF entry = "strict" THEN Min(NameWindow, Len(lines)) ELSE Len(lines)) :
        ~PassesNameTest(lines[i])

\* C9: the extracted name holds an "@" only when no line qualified as a name and
\* the first line of the document was returned as the fallback.
NameWithAtIsFallback ==
    (Returned /\ HasAt(NameOf(result))) =>
        NoLineQualifies /\ NameOf(result) = lines[1]

\* The strict pipeline has returned a first line with an "@" as the name, in a
\* document of several lines.
FallbackNameWithAt ==
    /\ pc = "done" /\ entry = "strict"
    /\ Len(lines) >= 2
    /\ HasAt(NameOf(result))

\* C10: the name is a line among the first NameWindow lines that passes the name
\* test of the pipeline, or else the first line of the document; a line at index
\* NameWindow or later is never the name.
NameFromWindow ==
    (Returned /\ Len(lines) > 0) =>
        \/ NameOf(result) = lines[1]
        \/ \E i \in 1..Min(NameWindow, Len(lines)) :
              NameOf(result) = lines[i] /\ PassesNameTest(lines[i])

\* C11: every education entry that parseEducation, parseRawEducation and the
\* grouped education parser of the legacy parseResume emit has a non-empty degree.
EveryEntryHasDegree ==
    (pc = "done" /\ entry \in EducationEntries) =>
        \A k \in 1..Len(result) : result[k].degree # ""

\* A range pattern of the extractor that ran matches the fragment.
RangePatternMatches ==
    IF entry = "extractDateRange"
    THEN \E k \in 1..4 : DateRangePatterns(text)[k] # << >>
    ELSE RangeMatch(text, FALSE, TRUE, FALSE, <<"present", "current">>) # << >>

\* C12: extractDateRange and extractDatesFromText return two strings; when no range
\* pattern matches and the fragment holds a bare "Month Year", startDate is that
\* date and endDate is ""; when nothing matches both are "".
BareDateIsStartDate ==
    (pc = "done" /\ entry \in DateEntries) =>
        /\ result.startDate # NULL /\ result.endDate # NULL
        /\ ~RangePatternMatches =>
              /\ result.startDate = (IF SingleDateMatch(text) = "" THEN ""
                                     ELSE IsoOrEmpty(chronoParseDate(SingleDateMatch(text))))
              /\ result.endDate = ""

\* C13: detectSectionBoundaries and detectSections record at most one span per
\* line: no two spans of the list share a startIndex.
OneSpanPerLine ==
    (entry \in {"strict", "primary"} /\ Detected) =>
        \A j, k \in 1..Len(sections) :
            j # k => sections[j].startIndex # sections[k].startIndex

\* The line is very short, begins with a bullet marker or begins with a digit.
NoHeaderCandidate(line) ==
    Len(line) < 3 \/ startsWith(line, BULLET) \/ (line # "" /\ Ch(line, 1) \in DigitSet)

\* C14: no span of detectSections or detectSectionBoundaries starts at a line that
\* is shorter than 3 characters, begins with a bullet marker or begins with a digit.
NoSpanAtExcludedLine ==
    (entry \in {"strict", "primary"} /\ Detected) =>
        \A k \in 1..Len(sections) : ~NoHeaderCandidate(lines[sections[k].startIndex + 1])

\* The positions of the lines of ls that hold a date range, in source order.
AnchorIndices(ls) == SelectSeq(Indices(ls), LAMBDA i : HasJobDateRange(trim(ls[i])))

\* The last line of the stretch the k-th anchor opens: the line before the next
\* anchor, or the last line of the section.
StretchEnd(ls, anchors, k) == IF k < Len(anchors) THEN anchors[k + 1] - 1 ELSE Len(ls)

\* The bullet-marked lines among ls[from..to], marker stripped, in order.
StrippedBullets(ls, from, to) ==
    MapSeq(SelectSeq(SubSeq(ls, from, to), LAMBDA line : startsWith(line, BULLET)),
           StripBullet)

\* a is b with some elements left out.
RECURSIVE IsSubsequence(_, _)
IsSubsequence(a, b) ==
    IF Len(a) = 0 THEN TRUE
    ELSE IF Len(b) = 0 THEN FALSE
    ELSE IF Head(a) = Head(b) THEN IsSubsequence(Tail(a), Tail(b))
    ELSE IsSubsequence(a, Tail(b))

\* C15: parseWorkExperience emits exactly one entry per line with a date range,
\* in source order, and every bullet-marked line between an anchor and the next
\* anchor (or the end of the section) is, marker stripped and in order, in the
\* description of the entry that anchor opened.
BulletsReachTheirEntry ==
    (pc = "done" /\ entry = "parseWorkExperience") =>
        Bind(AnchorIndices(lines), LAMBDA anchors :
            /\ Len(result) = Len(anchors)
            /\ \A k \in 1..Len(anchors) :
                  /\ result[k].startDate = extractDatesFromText(lines[anchors[k]]).startDate
                  /\ IsSubsequence(
                         StrippedBullets(lines, anchors[k] + 1, StretchEnd(lines, anchors, k)),
                         result[k].description.overview))

\* C16: every element of the description of an entry of parseWorkExperience is
\* the text of a bullet-marked line of the section.
DescriptionHoldsOnlyBullets ==
    (pc = "done" /\ entry = "parseWorkExperience") =>
        \A k \in 1..Len(result) :
            \A n \in 1..Len(result[k].description.overview) :
                \E i \in 1..Len(lines) :
                    /\ startsWith(lines[i], BULLET)
                    /\ StripBullet(lines[i]) = result[k].description.overview[n]

\* C17: when the anchor line is followed by a non-bullet position line and then by
\* a non-bullet line shorter than 20 characters, the entry of parseWorkExperience
\* has a location field equal to that line.
LocationIsEmitted ==
    (pc = "done" /\ entry = "parseWorkExperience") =>
        Bind(AnchorIndices(lines), LAMBDA anchors :
            \A k \in 1..Len(anchors) :
                (/\ anchors[k] + 2 <= Len(lines)
                 /\ ~startsWith(lines[anchors[k] + 1], BULLET)
                 /\ ~startsWith(lines[anchors[k] + 2], BULLET)
                 /\ Len(lines[anchors[k] + 2]) < 20)
                    => /\ k <= Len(result)
                       /\ "location" \in DOMAIN result[k]
                       /\ result[k]["location"] = lines[anchors[k] + 2])

\* No line index was used by two of the entries pushed so far.
NoLineUsedTwice ==
    \A j, k \in 1..Len(scan.used) : j # k => scan.used[j] \cap scan.used[k] = {}

\* C18: in parseRawExperience every loop iteration moves the scan pointer forward
\* (the only other step is the return), no line index is used by more than one
\* pushed entry, and the scan ends.
ScanPointerAdvances ==
    /\ [][entry = "parseRawExperience" =>
            (scan'.i > scan.i \/ (pc' = "done" /\ scan' = scan))]_vars
    /\ [](entry = "parseRawExperience" => NoLineUsedTwice)
    /\ (entry = "parseRawExperience" => <>(pc = "done"))

\* parseRawExperience has returned two entries, the first of them with a bullet.
TwoEntriesScanned ==
    /\ entry = "parseRawExperience" /\ pc = "done"
    /\ Len(result) = 2
    /\ Len(result[1].description.overview) > 0
    /\ scan.i = Len(lines)

\* The positions of the lines the parser that was called takes as title lines.
ProjectTitleIndices(ls) ==
    SelectSeq(Indices(ls), LAMBDA i :
        IF entry = "parseProjects" THEN LooksLikeProjectTitle(trim(ls[i]))
        ELSE includes(trim(ls[i]), "|") /\ ~startsWith(trim(ls[i]), BULLET))

\* The line contains '|' or a GitHub/Live marker.
HasTitleMarker(line) ==
    includes(line, "|") \/ includes(line, "GitHub") \/ includes(line, "Live")

\* The first position at or after i whose line is a title candidate or is not
\* bullet-marked, Len(ls) + 1 when there is none.
RECURSIVE BulletRunEnd(_, _)
BulletRunEnd(ls, i) ==
    IF i > Len(ls) THEN i
    ELSE IF startsWith(trim(ls[i]), BULLET) /\ ~HasTitleMarker(trim(ls[i]))
    THEN BulletRunEnd(ls, i + 1)
    ELSE i

\* The bullet-marked lines immediately following the title line at t, stripped.
BulletRunAfter(ls, t) ==
    [k \in 1..(BulletRunEnd(ls, t + 1) - t - 1) |-> StripBullet(trim(ls[t + k]))]

\* C19: every project returned by parseProjects and by parseRawProjects has as its
\* description exactly the bullet-marked lines that immediately follow its title
\* line, in order, up to the first line that is a title candidate or is not a
\* bullet, or to the end of the section.
DescriptionIsBulletRun ==
    (pc = "done" /\ entry \in ProjectsEntries) =>
        /\ Len(result) = Len(ProjectTitleIndices(lines))
        /\ \A k \in 1..Len(result) :
              result[k].description = BulletRunAfter(lines, ProjectTitleIndices(lines)[k])
=============================================================================
